---- MODULE Spec2Model ----
(***************************************************************************)
(* Model of cybersecurity_data_updater.py: the retrying downloader, the    *)
(* per-source fetch wrappers, the STIX normalizers, the STRIDE correlation *)
(* and the run of main().                                                  *)
(*                                                                         *)
(* Python dictionaries are functions whose DOMAIN is the set of keys that  *)
(* are present, so dict.get(key, default) is Get below and an absent key   *)
(* differs from a key holding an empty value.  Text that the code searches *)
(* (names, descriptions, keywords) is a sequence of one-character strings; *)
(* identifiers and tags, which the code only compares, are strings.        *)
(***************************************************************************)
EXTENDS Integers, Sequences, FiniteSets, TLC

VARIABLES
    pc,             \* position in main() / generate_consolidated_mapping()
    url,            \* download_with_retry: index into sources of the url argument
    max_retries,    \* download_with_retry: the max_retries argument
    attempt,        \* download_with_retry: the loop variable
    responses,      \* history: what requests.get did on each attempt of this call
    sleeps,         \* history: the arguments of time.sleep during this call
    ret,            \* download_with_retry: <<document>> once returned, else <<>>
    downloaded,     \* history: source index -> <<document>> its download returned
    exhausted,      \* history: the sources whose download raised
    raw_files,      \* the sources whose <domain>_raw.json snapshot was written
    attack_data,    \* fetch_attack_data: the dict, as the sequence of its items
    capec_data,     \* result of fetch_capec_data
    d3fend_data,    \* result of fetch_d3fend_data
    techniques,     \* result of parse_attack_techniques
    mitigations,    \* result of parse_attack_mitigations
    capec_patterns, \* result of parse_capec_patterns
    stride_mapping, \* result of create_stride_mapping_with_real_data
    consolidated,   \* the consolidated mapping; <<>> before it is built
    out_files,      \* the final artifacts written
    outcome,        \* how main() ended, "running" until it has
    attempted,      \* history: the sources requests.get was called for
    events          \* history: the steps taken, in order, as Event records

vars == << pc, url, max_retries, attempt, responses, sleeps, ret, downloaded,
           exhausted, raw_files, attack_data, capec_data, d3fend_data, techniques,
           mitigations, capec_patterns, stride_mapping, consolidated, out_files,
           outcome, attempted, events >>

(***************************************************************************)
(* Bounds of the model.                                                    *)
(***************************************************************************)
MaxRetriesArg == 4

MaxTechs == 2

MaxPatterns == 2

(***************************************************************************)
(* Static configuration of CybersecurityDataUpdater.__init__.              *)
(***************************************************************************)
sources ==
    << "attack_enterprise", "attack_mobile", "attack_ics", "capec_stix", "d3fend_base" >>

DefaultMaxRetries == 3

DescriptionLimit == 200

SampleSize == 10

Categories ==
    << "Spoofing", "Tampering", "Repudiation", "Information Disclosure",
       "Denial of Service", "Elevation of Privilege" >>

capec_ids_Spoofing ==
    << "CAPEC-148", "CAPEC-145", "CAPEC-218", "CAPEC-502", "CAPEC-627", "CAPEC-628",
       "CAPEC-151", "CAPEC-194", "CAPEC-275", "CAPEC-543", "CAPEC-544", "CAPEC-598",
       "CAPEC-633", "CAPEC-195", "CAPEC-587", "CAPEC-599", "CAPEC-473", "CAPEC-459",
       "CAPEC-474", "CAPEC-475", "CAPEC-476", "CAPEC-477", "CAPEC-479", "CAPEC-485",
       "CAPEC-89", "CAPEC-98", "CAPEC-163", "CAPEC-164", "CAPEC-656", "CAPEC-154",
       "CAPEC-159", "CAPEC-132", "CAPEC-38", "CAPEC-471", "CAPEC-641", "CAPEC-141",
       "CAPEC-51", "CAPEC-142", "CAPEC-616", "CAPEC-505", "CAPEC-611", "CAPEC-615",
       "CAPEC-617", "CAPEC-630", "CAPEC-631", "CAPEC-632", "CAPEC-667", "CAPEC-173",
       "CAPEC-103", "CAPEC-181", "CAPEC-222", "CAPEC-501", "CAPEC-504", "CAPEC-654",
       "CAPEC-506", "CAPEC-416", "CAPEC-407", "CAPEC-383", "CAPEC-412", "CAPEC-413",
       "CAPEC-414", "CAPEC-415", "CAPEC-417", "CAPEC-418", "CAPEC-420", "CAPEC-421",
       "CAPEC-422", "CAPEC-423", "CAPEC-424", "CAPEC-425", "CAPEC-426", "CAPEC-427",
       "CAPEC-428", "CAPEC-429", "CAPEC-433", "CAPEC-434", "CAPEC-435", "CAPEC-389" >>

capec_ids_Tampering ==
    << "CAPEC-271", "CAPEC-267", "CAPEC-39", "CAPEC-75", "CAPEC-123", "CAPEC-153",
       "CAPEC-272", "CAPEC-273", "CAPEC-74", "CAPEC-221", "CAPEC-459", "CAPEC-132",
       "CAPEC-29", "CAPEC-653", "CAPEC-635", "CAPEC-649", "CAPEC-471", "CAPEC-204",
       "CAPEC-17", "CAPEC-649", "CAPEC-242", "CAPEC-23", "CAPEC-250", "CAPEC-77",
       "CAPEC-245", "CAPEC-83", "CAPEC-85", "CAPEC-89", "CAPEC-86", "CAPEC-113",
       "CAPEC-152", "CAPEC-263", "CAPEC-81", "CAPEC-78", "CAPEC-146", "CAPEC-248",
       "CAPEC-13", "CAPEC-522", "CAPEC-439", "CAPEC-440", "CAPEC-441", "CAPEC-636",
       "CAPEC-637", "CAPEC-638", "CAPEC-562" >>

capec_ids_Repudiation ==
    << "CAPEC-268", "CAPEC-93", "CAPEC-93", "CAPEC-268", "CAPEC-578", "CAPEC-205",
       "CAPEC-550", "CAPEC-97", "CAPEC-649", "CAPEC-26" >>

capec_ids_InformationDisclosure ==
    << "CAPEC-117", "CAPEC-157", "CAPEC-158", "CAPEC-609", "CAPEC-610", "CAPEC-612",
       "CAPEC-613", "CAPEC-614", "CAPEC-651", "CAPEC-651", "CAPEC-124", "CAPEC-134",
       "CAPEC-233", "CAPEC-116", "CAPEC-37", "CAPEC-203", "CAPEC-189", "CAPEC-188",
       "CAPEC-651", "CAPEC-189", "CAPEC-208", "CAPEC-224", "CAPEC-95", "CAPEC-116",
       "CAPEC-37", "CAPEC-118", "CAPEC-224", "CAPEC-116", "CAPEC-95", "CAPEC-509",
       "CAPEC-560", "CAPEC-560", "CAPEC-509" >>

capec_ids_DenialOfService ==
    << "CAPEC-119", "CAPEC-125", "CAPEC-130", "CAPEC-131", "CAPEC-147", "CAPEC-229",
       "CAPEC-230", "CAPEC-231", "CAPEC-482", "CAPEC-486", "CAPEC-487", "CAPEC-488",
       "CAPEC-489", "CAPEC-490", "CAPEC-491", "CAPEC-492", "CAPEC-493", "CAPEC-494",
       "CAPEC-495", "CAPEC-496", "CAPEC-497", "CAPEC-498", "CAPEC-499", "CAPEC-21",
       "CAPEC-482", "CAPEC-486", "CAPEC-487", "CAPEC-488", "CAPEC-489", "CAPEC-490",
       "CAPEC-491", "CAPEC-492", "CAPEC-493", "CAPEC-494", "CAPEC-495", "CAPEC-496",
       "CAPEC-497", "CAPEC-498", "CAPEC-499", "CAPEC-147", "CAPEC-229", "CAPEC-230",
       "CAPEC-231", "CAPEC-599", "CAPEC-600", "CAPEC-601", "CAPEC-602", "CAPEC-603",
       "CAPEC-604", "CAPEC-605", "CAPEC-606", "CAPEC-607", "CAPEC-608" >>

capec_ids_ElevationOfPrivilege ==
    << "CAPEC-122", "CAPEC-58", "CAPEC-180", "CAPEC-21", "CAPEC-122", "CAPEC-207",
       "CAPEC-122", "CAPEC-207", "CAPEC-36", "CAPEC-36", "CAPEC-560", "CAPEC-16",
       "CAPEC-554", "CAPEC-593", "CAPEC-233", "CAPEC-69", "CAPEC-40", "CAPEC-104",
       "CAPEC-233", "CAPEC-69", "CAPEC-40", "CAPEC-104", "CAPEC-21", "CAPEC-21",
       "CAPEC-102", "CAPEC-102" >>

keywords_Spoofing ==
    << <<"s","p","o","o","f">>,
       <<"f","a","k","e">>,
       <<"i","m","p","e","r","s","o","n","a","t">>,
       <<"m","a","s","q","u","e","r","a","d">>,
       <<"p","h","i","s","h">>,
       <<"i","d","e","n","t","i","t","y">>,
       <<"f","o","r","g","e">> >>

keywords_Tampering ==
    << <<"t","a","m","p","e","r">>,
       <<"m","o","d","i","f","y">>,
       <<"a","l","t","e","r">>,
       <<"c","o","r","r","u","p","t">>,
       <<"m","a","n","i","p","u","l","a","t">>,
       <<"i","n","j","e","c","t">>,
       <<"p","o","i","s","o","n">> >>

keywords_Repudiation ==
    << <<"l","o","g">>,
       <<"a","u","d","i","t">>,
       <<"t","r","a","c","e">>,
       <<"e","v","i","d","e","n","c","e">>,
       <<"t","i","m","e","s","t","a","m","p">>,
       <<"n","o","n","-","r","e","p","u","d","i","a","t","i","o","n">>,
       <<"c","o","v","e","r">> >>

keywords_InformationDisclosure ==
    << <<"d","i","s","c","l","o","s","u","r","e">>,
       <<"l","e","a","k">>,
       <<"e","x","f","i","l","t","r","a","t">>,
       <<"c","r","e","d","e","n","t","i","a","l">>,
       <<"s","e","n","s","i","t","i","v","e">>,
       <<"d","a","t","a">>,
       <<"h","a","r","v","e","s","t">> >>

keywords_DenialOfService ==
    << <<"d","e","n","i","a","l">>,
       <<"f","l","o","o","d">>,
       <<"e","x","h","a","u","s","t">>,
       <<"r","e","s","o","u","r","c","e">>,
       <<"a","v","a","i","l","a","b","i","l","i","t","y">>,
       <<"c","r","a","s","h">>,
       <<"o","v","e","r","w","h","e","l","m">> >>

keywords_ElevationOfPrivilege ==
    << <<"p","r","i","v","i","l","e","g","e">>,
       <<"e","s","c","a","l","a","t">>,
       <<"a","d","m","i","n">>,
       <<"r","o","o","t">>,
       <<"e","l","e","v","a","t">>,
       <<"b","y","p","a","s","s">>,
       <<"u","n","a","u","t","h","o","r","i","z","e","d">> >>

stride_capec_mappings ==
    [ c \in { Categories[i] : i \in DOMAIN Categories } |->
        CASE c = "Spoofing" ->
               [ description |-> "Identity falsification attacks",
                 capec_ids |-> capec_ids_Spoofing ]
          [] c = "Tampering" ->
               [ description |-> "Data or system integrity violations",
                 capec_ids |-> capec_ids_Tampering ]
          [] c = "Repudiation" ->
               [ description |-> "Denial of actions or hiding evidence",
                 capec_ids |-> capec_ids_Repudiation ]
          [] c = "Information Disclosure" ->
               [ description |-> "Unauthorized information access or leakage",
                 capec_ids |-> capec_ids_InformationDisclosure ]
          [] c = "Denial of Service" ->
               [ description |-> "Service availability attacks",
                 capec_ids |-> capec_ids_DenialOfService ]
          [] OTHER ->
               [ description |-> "Unauthorized access escalation",
                 capec_ids |-> capec_ids_ElevationOfPrivilege ] ]

stride_keywords ==
    [ c \in { Categories[i] : i \in DOMAIN Categories } |->
        CASE c = "Spoofing" -> keywords_Spoofing
          [] c = "Tampering" -> keywords_Tampering
          [] c = "Repudiation" -> keywords_Repudiation
          [] c = "Information Disclosure" -> keywords_InformationDisclosure
          [] c = "Denial of Service" -> keywords_DenialOfService
          [] OTHER -> keywords_ElevationOfPrivilege ]

(***************************************************************************)
(* Python primitives.                                                      *)
(***************************************************************************)
Get(d, key, default) == IF key \in DOMAIN d THEN d[key] ELSE default

EmptyDict == << >>

Truthy(d) == DOMAIN d # {}

UpperCase ==
    << "A", "B", "C", "D", "E", "F", "G", "H", "I", "J", "K", "L", "M",
       "N", "O", "P", "Q", "R", "S", "T", "U", "V", "W", "X", "Y", "Z" >>

LowerCase ==
    << "a", "b", "c", "d", "e", "f", "g", "h", "i", "j", "k", "l", "m",
       "n", "o", "p", "q", "r", "s", "t", "u", "v", "w", "x", "y", "z" >>

LowerChar(ch) ==
    IF \E i \in DOMAIN UpperCase : UpperCase[i] = ch
    THEN LowerCase[CHOOSE i \in DOMAIN UpperCase : UpperCase[i] = ch]
    ELSE ch

lower(s) == [ i \in DOMAIN s |-> LowerChar(s[i]) ]

Contains(hay, needle) ==
    \E i \in 0 .. (Len(hay) - Len(needle)) :
        SubSeq(hay, i + 1, i + Len(needle)) = needle

(***************************************************************************)
(* Catalog normalizers (parse_attack_techniques, parse_attack_mitigations, *)
(* parse_capec_patterns).  An expression that raises in Python has a       *)
(* ..._raises predicate; the value operator is used only where it is false.*)
(***************************************************************************)
external_references(obj) == Get(obj, "external_references", << >>)

\* obj.get('external_references', [{}])[0] raises IndexError on an empty list
first_reference_raises(obj) == Get(obj, "external_references", << EmptyDict >>) = << >>

\* obj.get('external_references', [{}])[0].get('external_id', '')
first_reference_id(obj) ==
    Get(Get(obj, "external_references", << EmptyDict >>)[1], "external_id", "")

\* phase['phase_name'] raises KeyError when the key is missing
tactics_raises(obj) ==
    \E i \in DOMAIN Get(obj, "kill_chain_phases", << >>) :
        "phase_name" \notin DOMAIN Get(obj, "kill_chain_phases", << >>)[i]

tactics(obj) ==
    [ i \in DOMAIN Get(obj, "kill_chain_phases", << >>) |->
        Get(obj, "kill_chain_phases", << >>)[i].phase_name ]

technique_raises(obj) == first_reference_raises(obj) \/ tactics_raises(obj)

technique(obj, domain) ==
    [ id |-> first_reference_id(obj),
      name |-> Get(obj, "name", << >>),
      description |-> Get(obj, "description", << >>),
      domain |-> domain,
      tactics |-> tactics(obj),
      stix_id |-> Get(obj, "id", ""),
      created |-> Get(obj, "created", ""),
      modified |-> Get(obj, "modified", ""),
      external_references |-> external_references(obj) ]

mitigation_raises(obj) == first_reference_raises(obj)

mitigation(obj, domain) ==
    [ id |-> first_reference_id(obj),
      name |-> Get(obj, "name", << >>),
      description |-> Get(obj, "description", << >>),
      domain |-> domain,
      stix_id |-> Get(obj, "id", ""),
      created |-> Get(obj, "created", ""),
      modified |-> Get(obj, "modified", ""),
      external_references |-> external_references(obj) ]

\* the objects of one document whose declared type is wanted, in document order
objects_of_type(data, type) ==
    IF "objects" \in DOMAIN data
    THEN SelectSeq(data.objects, LAMBDA obj : Get(obj, "type", "None") = type)
    ELSE << >>

RECURSIVE parse_attack_techniques(_)
parse_attack_techniques(items) ==
    IF items = << >> THEN << >>
    ELSE LET objs == objects_of_type(Head(items).data, "attack-pattern")
         IN  [ i \in DOMAIN objs |-> technique(objs[i], Head(items).domain) ]
             \o parse_attack_techniques(Tail(items))

parse_attack_techniques_raises(items) ==
    \E d \in DOMAIN items :
        LET objs == objects_of_type(items[d].data, "attack-pattern")
        IN  \E i \in DOMAIN objs : technique_raises(objs[i])

RECURSIVE parse_attack_mitigations(_)
parse_attack_mitigations(items) ==
    IF items = << >> THEN << >>
    ELSE LET objs == objects_of_type(Head(items).data, "course-of-action")
         IN  [ i \in DOMAIN objs |-> mitigation(objs[i], Head(items).domain) ]
             \o parse_attack_mitigations(Tail(items))

parse_attack_mitigations_raises(items) ==
    \E d \in DOMAIN items :
        LET objs == objects_of_type(items[d].data, "course-of-action")
        IN  \E i \in DOMAIN objs : mitigation_raises(objs[i])

\* the external_id of the first reference tagged 'capec', '' when there is none
\* mutant: the first reference is taken whatever its source_name
capec_reference_id_untagged(obj) ==
    LET refs == external_references(obj)
    IN  IF refs = << >> THEN "" ELSE Get(refs[1], "external_id", "")

capec_reference_id(obj) ==
    LET refs == external_references(obj)
        tagged == { i \in DOMAIN refs : Get(refs[i], "source_name", "None") = "capec" }
    IN  IF tagged = {} THEN ""
        ELSE Get(refs[CHOOSE i \in tagged : \A j \in tagged : i <= j], "external_id", "")

pattern(obj) ==
    [ id |-> capec_reference_id(obj),
      name |-> Get(obj, "name", << >>),
      description |-> Get(obj, "description", << >>),
      stix_id |-> Get(obj, "id", ""),
      created |-> Get(obj, "created", ""),
      modified |-> Get(obj, "modified", ""),
      external_references |-> external_references(obj) ]

parse_capec_patterns(data) ==
    LET objs == objects_of_type(data, "attack-pattern")
    IN  [ i \in DOMAIN objs |-> pattern(objs[i]) ]

(***************************************************************************)
(* Correlation engine (create_stride_mapping_with_real_data).              *)
(***************************************************************************)
\* {pattern['id']: pattern for pattern in patterns if pattern['id']}: a later
\* pattern with the same id replaces an earlier one
\* mutant: the first pattern with an identifier is kept, later ones are dropped
capec_by_id_first_wins(patterns) ==
    [ id \in { patterns[i].id : i \in DOMAIN patterns } \ { "" } |->
        patterns[CHOOSE i \in DOMAIN patterns :
                    /\ patterns[i].id = id
                    /\ \A j \in DOMAIN patterns : patterns[j].id = id => i <= j] ]

capec_by_id(patterns) ==
    [ id \in { patterns[i].id : i \in DOMAIN patterns } \ { "" } |->
        patterns[CHOOSE i \in DOMAIN patterns :
                    /\ patterns[i].id = id
                    /\ \A j \in DOMAIN patterns : patterns[j].id = id => j <= i] ]

truncated(description) ==
    IF Len(description) > DescriptionLimit
    THEN SubSeq(description, 1, DescriptionLimit) \o << ".", ".", "." >>
    ELSE description

pattern_summary(p) ==
    [ id |-> p.id, name |-> p.name, description |-> truncated(p.description) ]

\* mutant: the loop stops at the first curated identifier that has no pattern
RECURSIVE map_capec_patterns_break(_, _)
map_capec_patterns_break(capec_ids, index) ==
    IF capec_ids = << >> \/ Head(capec_ids) \notin DOMAIN index THEN << >>
    ELSE << pattern_summary(index[Head(capec_ids)]) >>
         \o map_capec_patterns_break(Tail(capec_ids), index)

\* the loop over mapping_info['capec_ids'], which appends a summary for every
\* entry found in the index: found_capec_ids is added to at line 380 and
\* never read, so it decides nothing and is left out
map_capec_patterns(capec_ids, index) ==
    LET found == SelectSeq(capec_ids, LAMBDA capec_id : capec_id \in DOMAIN index)
    IN  [ i \in DOMAIN found |-> pattern_summary(index[found[i]]) ]

\* mutant: the text is searched without being lowercased
desc_as_written(tech) ==
    Get(tech, "description", << >>) \o << " " >> \o Get(tech, "name", << >>)

\* line 396: (description + ' ' + name).lower()
desc_lower(tech) ==
    lower(Get(tech, "description", << >>) \o << " " >> \o Get(tech, "name", << >>))

keyword_match(tech, keywords) ==
    LET text == desc_lower(tech)
    IN  \E k \in DOMAIN keywords : Contains(text, keywords[k])

technique_summary(tech) ==
    [ id |-> tech.id, name |-> tech.name, domain |-> tech.domain,
      tactics |-> Get(tech, "tactics", << >>) ]

map_attack_techniques(techs, keywords) ==
    LET hits == SelectSeq(techs, LAMBDA tech : keyword_match(tech, keywords))
    IN  [ i \in DOMAIN hits |-> technique_summary(hits[i]) ]

\* mutant: capec_count counts the distinct identifiers of the match list
category_mapping_distinct_count(category, techs, index) ==
    LET matched == map_capec_patterns(stride_capec_mappings[category].capec_ids, index)
    IN  [ description |-> stride_capec_mappings[category].description,
          capec_patterns |-> matched,
          capec_count |-> Cardinality({ matched[i].id : i \in DOMAIN matched }),
          attack_techniques |->
              map_attack_techniques(techs, Get(stride_keywords, category, << >>)),
          mapping_source |-> "Official community mapping (ostering.com)" ]

category_mapping(category, techs, index) ==
    LET matched == map_capec_patterns(stride_capec_mappings[category].capec_ids, index)
    IN  [ description |-> stride_capec_mappings[category].description,
          capec_patterns |-> matched,
          capec_count |-> Len(matched),
          attack_techniques |->
              map_attack_techniques(techs, Get(stride_keywords, category, << >>)),
          mapping_source |-> "Official community mapping (ostering.com)" ]

\* mutant: a category with no match at all is left out of the result
create_stride_mapping_matched_only(techs, patterns) ==
    LET index == capec_by_id(patterns)
        hit(category) == LET entry == category_mapping(category, techs, index)
                         IN  entry.capec_patterns # << >> \/ entry.attack_techniques # << >>
    IN  [ category \in { c \in DOMAIN stride_capec_mappings : hit(c) } |->
            category_mapping(category, techs, index) ]

\* mutant: one set of seen identifiers is shared by the categories, so a
\* category emits only what no category before it has curated
create_stride_mapping_shared_seen(techs, patterns) ==
    LET index == capec_by_id(patterns)
        position(category) == CHOOSE k \in DOMAIN Categories : Categories[k] = category
        seen(category) ==
            UNION { { stride_capec_mappings[Categories[k]].capec_ids[i] :
                        i \in DOMAIN stride_capec_mappings[Categories[k]].capec_ids } :
                    k \in 1 .. (position(category) - 1) }
        unseen(category) == [ id \in DOMAIN index \ seen(category) |-> index[id] ]
    IN  [ category \in DOMAIN stride_capec_mappings |->
            category_mapping(category, techs, unseen(category)) ]

create_stride_mapping_with_real_data(techs, patterns) ==
    LET index == capec_by_id(patterns)
    IN  [ category \in DOMAIN stride_capec_mappings |->
            category_mapping(category, techs, index) ]

(***************************************************************************)
(* The consolidated document of generate_consolidated_mapping (lines       *)
(* 427-456).  generated_at is the wall clock and is not part of the model. *)
(***************************************************************************)
RECURSIVE SumOver(_, _, _)
SumOver(mapping, field, cats) ==
    IF cats = << >> THEN 0
    ELSE Len(mapping[Head(cats)][field]) + SumOver(mapping, field, Tail(cats))

Sample(list) == SubSeq(list, 1, IF Len(list) < SampleSize THEN Len(list) ELSE SampleSize)

consolidated_mapping(techs, mits, pats, d3fend, mapping) ==
    [ metadata |->
        [ version |-> "2.0",
          mapping_source |-> "Official STRIDE-CAPEC mappings from community research",
          data_sources |->
            [ attack_techniques_count |-> Len(techs),
              attack_mitigations_count |-> Len(mits),
              capec_patterns_count |-> Len(pats),
              d3fend_available |-> Truthy(d3fend),
              stride_categories |-> Cardinality(DOMAIN stride_capec_mappings) ] ],
      stride_mapping |-> mapping,
      framework_stats |->
        [ total_capec_mapped |-> SumOver(mapping, "capec_patterns", Categories),
          total_attack_mapped |-> SumOver(mapping, "attack_techniques", Categories),
          coverage_by_category |->
            [ category \in DOMAIN mapping |->
                [ capec_count |-> Len(mapping[category].capec_patterns),
                  attack_count |-> Len(mapping[category].attack_techniques) ] ] ],
      sample_data |->
        [ attack_techniques |-> Sample(techs),
          attack_mitigations |-> Sample(mits),
          capec_patterns |-> Sample(pats) ] ]

(***************************************************************************)
(* Inputs: the records and documents the remote catalogs may serve.        *)
(***************************************************************************)
MitreRef(id) == [ source_name |-> "mitre-attack", external_id |-> id ]

CapecRef(id) == [ source_name |-> "capec", external_id |-> id ]

\* "a FAKE net": matches Spoofing only after lowercasing
ObjRogueAP ==
    [ type |-> "attack-pattern", id |-> "attack-pattern--01",
      name |-> << "R", "o", "g", "u", "e", " ", "A", "P" >>,
      description |-> << "a", " ", "F", "A", "K", "E", " ", "n", "e", "t" >>,
      external_references |-> << MitreRef("T1") >>,
      kill_chain_phases |->
          << [ kill_chain_name |-> "mitre-attack", phase_name |-> "initial-access" ] >>,
      created |-> "2020-01-01", modified |-> "2021-01-01" ]

\* name "phi", description "shing": "phish" appears only if the two are joined
\* name first with nothing in between; the first reference is not MITRE's
ObjSplit ==
    [ type |-> "attack-pattern", id |-> "attack-pattern--02",
      name |-> << "p", "h", "i" >>,
      description |-> << "s", "h", "i", "n", "g" >>,
      external_references |-> << CapecRef("CAPEC-98"), MitreRef("T2") >> ]

\* no external_references key; matches four categories
ObjMulti ==
    [ type |-> "attack-pattern", id |-> "attack-pattern--03",
      name |-> << "A", "d", "m", "i", "n", " ", "L", "o", "g" >>,
      description |-> << "i", "n", "j", "e", "c", "t", " ", "d", "a", "t", "a" >>,
      kill_chain_phases |-> << >> ]

\* first reference without external_id, no description key; matches nothing
ObjNoExtId ==
    [ type |-> "attack-pattern", id |-> "attack-pattern--04",
      name |-> << "S", "c", "a", "n" >>,
      external_references |-> << [ source_name |-> "mitre-attack", url |-> "u" ],
                                 MitreRef("T4") >> ]

\* malformed: an external_references list with no entries
ObjEmptyRefs ==
    [ type |-> "attack-pattern", id |-> "attack-pattern--05",
      name |-> << "f", "l", "o", "o", "d" >>,
      description |-> << >>,
      external_references |-> << >> ]

\* malformed: a kill-chain phase entry without phase_name
ObjBadPhase ==
    [ type |-> "attack-pattern", id |-> "attack-pattern--06",
      name |-> << "r", "o", "o", "t" >>,
      description |-> << >>,
      external_references |-> << MitreRef("T6") >>,
      kill_chain_phases |-> << [ kill_chain_name |-> "mitre-attack" ] >> ]

MitAudit ==
    [ type |-> "course-of-action", id |-> "course-of-action--01",
      name |-> << "A", "u", "d", "i", "t" >>,
      description |-> << >>,
      external_references |-> << MitreRef("M1") >> ]

MitEmptyRefs ==
    [ type |-> "course-of-action", id |-> "course-of-action--02",
      name |-> << "P", "a", "t", "c", "h" >>,
      external_references |-> << >> ]

ObjRelationship == [ type |-> "relationship", id |-> "relationship--01" ]

ObjUntyped == [ id |-> "x-mitre--01" ]

LongText == [ i \in 1 .. (DescriptionLimit + 1) |-> "x" ]

\* the 'capec' reference is not the first one; description longer than the limit
PatLog ==
    [ type |-> "attack-pattern", id |-> "attack-pattern--93",
      name |-> << "L", "o", "g" >>,
      description |-> LongText,
      external_references |->
          << [ source_name |-> "cwe", external_id |-> "CWE-117" ], CapecRef("CAPEC-93") >> ]

PatSessionA ==
    [ type |-> "attack-pattern", id |-> "attack-pattern--21a",
      name |-> << "A" >>, description |-> << "a" >>,
      external_references |-> << CapecRef("CAPEC-21") >> ]

\* same identifier as PatSessionA
PatSessionB ==
    [ type |-> "attack-pattern", id |-> "attack-pattern--21b",
      name |-> << "B" >>, description |-> << "b" >>,
      external_references |-> << CapecRef("CAPEC-21"), CapecRef("CAPEC-22") >> ]

\* the first reference tagged 'capec' has no external_id, a later one has
PatNoCapecId ==
    [ type |-> "attack-pattern", id |-> "attack-pattern--nil",
      name |-> << "X" >>,
      external_references |-> << [ source_name |-> "capec" ], CapecRef("CAPEC-1") >> ]

\* no reference tagged 'capec': the identifier is ''
PatUntagged ==
    [ type |-> "attack-pattern", id |-> "attack-pattern--00",
      name |-> << "U" >>,
      external_references |-> << [ source_name |-> "cwe", external_id |-> "CWE-1" ] >> ]

\* curated by Repudiation before and after CAPEC-93
PatTrail ==
    [ type |-> "attack-pattern", id |-> "attack-pattern--268",
      name |-> << "T" >>, description |-> << "t" >>,
      external_references |-> << CapecRef("CAPEC-268") >> ]

\* an identifier no category curates
PatUncurated ==
    [ type |-> "attack-pattern", id |-> "attack-pattern--999",
      name |-> << "N" >>, description |-> << >>,
      external_references |-> << CapecRef("CAPEC-999") >> ]

Bundle(objs) == [ type |-> "bundle", objects |-> objs ]

\* the documents an endpoint may answer with, by index into sources
Documents(u) ==
    CASE u = 1 -> { Bundle(<< ObjRogueAP, ObjRelationship, MitAudit, ObjSplit >>),
                    Bundle(<< ObjRogueAP, ObjEmptyRefs, MitAudit >>),
                    [ type |-> "bundle" ] }
      [] u = 2 -> { Bundle(<< ObjMulti, ObjUntyped, ObjNoExtId >>),
                    Bundle(<< ObjBadPhase, ObjMulti >>) }
      [] u = 3 -> { Bundle(<< MitAudit, ObjNoExtId >>),
                    Bundle(<< ObjRogueAP, MitEmptyRefs >>) }
      [] u = 4 -> { Bundle(<< PatLog, PatUntagged, PatSessionA, ObjRelationship,
                              PatSessionB, PatNoCapecId, PatTrail >>),
                    Bundle(<< PatUncurated, PatSessionA >>) }
      [] OTHER -> { [ mappings |-> "d3fend" ] }

TechPool ==
    { technique(obj, sources[1]) : obj \in { ObjRogueAP, ObjSplit, ObjMulti, ObjNoExtId } }

PatternPool ==
    { pattern(obj) : obj \in { PatLog, PatSessionA, PatSessionB, PatUntagged,
                               PatUncurated } }

SeqsUpTo(S, n) == UNION { [ 1 .. k -> S ] : k \in 0 .. n }

(***************************************************************************)
(* download_with_retry (lines 186-202).                                    *)
(***************************************************************************)
\* what requests.get / raise_for_status / response.json may do on one attempt
Responses(u) ==
    { [ ok |-> FALSE ] } \cup { [ ok |-> TRUE, doc |-> d ] : d \in Documents(u) }

\* mutant: a wait follows the last failed attempt too
retry_always(a, n) == a < n

\* line 198: if attempt < max_retries - 1
retry_allowed(a, n) == a < n - 1

\* mutant: linear backoff
backoff_linear(a) == 2 * a

\* line 199: time.sleep(2 ** attempt)
backoff(a) == 2 ^ a

\* entering download_with_retry(self.sources[u])
Call(u) ==
    /\ url' = u
    /\ attempt' = 0
    /\ responses' = << >>
    /\ sleeps' = << >>
    /\ ret' = << >>
    /\ pc' = "download"

\* one iteration of the for loop: the request, and what follows it
download_attempt ==
    /\ pc = "download"
    /\ attempt < max_retries
    /\ \E r \in Responses(url) :
        /\ responses' = Append(responses, r)
        /\ IF r.ok
           THEN ret' = << r.doc >> /\ pc' = "returned"
           ELSE /\ ret' = ret
                /\ pc' = IF retry_allowed(attempt, max_retries) THEN "sleep" ELSE "raised"
    /\ attempted' = attempted \cup { url }
    /\ UNCHANGED << url, max_retries, attempt, sleeps, downloaded, exhausted, raw_files,
                    attack_data, capec_data, d3fend_data, techniques, mitigations,
                    capec_patterns, stride_mapping, consolidated, out_files, outcome, events >>

\* mutant: the wait is followed by the same iteration again
download_sleep_same_attempt ==
    /\ pc = "sleep"
    /\ sleeps' = Append(sleeps, backoff(attempt))
    /\ attempt' = attempt
    /\ pc' = "download"
    /\ UNCHANGED << url, max_retries, responses, ret, downloaded, exhausted, raw_files,
                    attack_data, capec_data, d3fend_data, techniques, mitigations,
                    capec_patterns, stride_mapping, consolidated, out_files, outcome,
                    attempted, events >>

\* the backoff wait, then the next iteration
download_sleep ==
    /\ pc = "sleep"
    /\ sleeps' = Append(sleeps, backoff(attempt))
    /\ attempt' = attempt + 1
    /\ pc' = "download"
    /\ UNCHANGED << url, max_retries, responses, ret, downloaded, exhausted, raw_files,
                    attack_data, capec_data, d3fend_data, techniques, mitigations,
                    capec_patterns, stride_mapping, consolidated, out_files, outcome,
                    attempted, events >>

\* range(max_retries) is used up without a return or a raise: the function
\* falls off its end and returns None
download_falls_through ==
    /\ pc = "download"
    /\ attempt >= max_retries
    /\ pc' = "returned_none"
    /\ UNCHANGED << url, max_retries, attempt, responses, sleeps, ret, downloaded,
                    exhausted, raw_files, attack_data, capec_data, d3fend_data,
                    techniques, mitigations, capec_patterns, stride_mapping,
                    consolidated, out_files, outcome, attempted, events >>

(***************************************************************************)
(* fetch_attack_data, fetch_capec_data, fetch_d3fend_data (lines 204-269), *)
(* called in this order by generate_consolidated_mapping (lines 414-416).  *)
(***************************************************************************)
AttackSources == { u \in DOMAIN sources : u \in 1 .. 3 }

\* an entry of the history of steps; source is 0 for a step of the whole run
Event(step, source) == [ step |-> step, source |-> source ]

\* a download returned for source u and its snapshot was, or was not, written
Fetched(u, written) ==
    << Event("downloaded", u) >> \o (IF written THEN << Event("snapshot", u) >> ELSE << >>)

\* lines 214-221: the document is stored in attack_data, then the snapshot is
\* written; an error of the write is caught at line 223 after the store
fetch_attack_data_returned ==
    /\ pc = "returned"
    /\ url \in AttackSources
    /\ attack_data' = Append(attack_data, [ domain |-> sources[url], data |-> ret[1] ])
    /\ downloaded' = [ downloaded EXCEPT ![url] = ret ]
    /\ \E written \in BOOLEAN :
        /\ raw_files' = IF written THEN raw_files \cup { url } ELSE raw_files
        /\ events' = events \o Fetched(url, written)
    /\ Call(url + 1)
    /\ UNCHANGED << max_retries, exhausted, capec_data, d3fend_data, techniques,
                    mitigations, capec_patterns, stride_mapping, consolidated,
                    out_files, outcome, attempted >>

\* mutant: the first ATT&CK download that fails ends the loop over the domains
fetch_attack_data_raised_breaks ==
    /\ pc = "raised"
    /\ url \in AttackSources
    /\ exhausted' = exhausted \cup { url }
    /\ events' = Append(events, Event("failed", url))
    /\ Call(4)
    /\ UNCHANGED << max_retries, downloaded, raw_files, attack_data, capec_data,
                    d3fend_data, techniques, mitigations, capec_patterns,
                    stride_mapping, consolidated, out_files, outcome, attempted >>

\* lines 223-224: the download raised; the domain gets no entry
fetch_attack_data_raised ==
    /\ pc = "raised"
    /\ url \in AttackSources
    /\ exhausted' = exhausted \cup { url }
    /\ events' = Append(events, Event("failed", url))
    /\ Call(url + 1)
    /\ UNCHANGED << max_retries, downloaded, raw_files, attack_data, capec_data,
                    d3fend_data, techniques, mitigations, capec_patterns,
                    stride_mapping, consolidated, out_files, outcome, attempted >>

\* lines 235-243: the snapshot is written, then the document is returned;
\* lines 245-247: an error of the write is caught and {} is returned instead
fetch_capec_data_returned ==
    /\ pc = "returned"
    /\ url = 4
    /\ downloaded' = [ downloaded EXCEPT ![url] = ret ]
    /\ \E written \in BOOLEAN :
        /\ raw_files' = IF written THEN raw_files \cup { url } ELSE raw_files
        /\ capec_data' = IF written THEN ret[1] ELSE EmptyDict
        /\ events' = events \o Fetched(url, written)
    /\ Call(url + 1)
    /\ UNCHANGED << max_retries, exhausted, attack_data, d3fend_data, techniques,
                    mitigations, capec_patterns, stride_mapping, consolidated,
                    out_files, outcome, attempted >>

\* lines 245-247: the download raised
fetch_capec_data_raised ==
    /\ pc = "raised"
    /\ url = 4
    /\ exhausted' = exhausted \cup { url }
    /\ capec_data' = EmptyDict
    /\ events' = Append(events, Event("failed", url))
    /\ Call(url + 1)
    /\ UNCHANGED << max_retries, downloaded, raw_files, attack_data, d3fend_data,
                    techniques, mitigations, capec_patterns, stride_mapping,
                    consolidated, out_files, outcome, attempted >>

\* lines 257-265 and 267-269, as for CAPEC
fetch_d3fend_data_returned ==
    /\ pc = "returned"
    /\ url = 5
    /\ downloaded' = [ downloaded EXCEPT ![url] = ret ]
    /\ \E written \in BOOLEAN :
        /\ raw_files' = IF written THEN raw_files \cup { url } ELSE raw_files
        /\ d3fend_data' = IF written THEN ret[1] ELSE EmptyDict
        /\ events' = events \o Fetched(url, written)
    /\ pc' = "parse_techniques"
    /\ UNCHANGED << url, max_retries, attempt, responses, sleeps, ret, exhausted,
                    attack_data, capec_data, techniques, mitigations, capec_patterns,
                    stride_mapping, consolidated, out_files, outcome, attempted >>

fetch_d3fend_data_raised ==
    /\ pc = "raised"
    /\ url = 5
    /\ exhausted' = exhausted \cup { url }
    /\ d3fend_data' = EmptyDict
    /\ events' = Append(events, Event("failed", url))
    /\ pc' = "parse_techniques"
    /\ UNCHANGED << url, max_retries, attempt, responses, sleeps, ret, downloaded,
                    raw_files, attack_data, capec_data, techniques, mitigations,
                    capec_patterns, stride_mapping, consolidated, out_files, outcome,
                    attempted >>

(***************************************************************************)
(* The rest of generate_consolidated_mapping (lines 418-464) and of main   *)
(* (lines 825-841).  An exception no handler catches reaches main, which   *)
(* logs it and raises it again: the run ends without an outcome document.  *)
(***************************************************************************)
fetch_vars ==
    << url, max_retries, attempt, responses, sleeps, ret, downloaded, exhausted,
       raw_files, attack_data, capec_data, d3fend_data, attempted >>

\* line 419
parse_techniques ==
    /\ pc = "parse_techniques"
    /\ events' = Append(events, Event("parse_techniques", 0))
    /\ IF parse_attack_techniques_raises(attack_data)
       THEN pc' = "ended" /\ outcome' = "parse_error" /\ techniques' = techniques
       ELSE /\ pc' = "parse_mitigations"
            /\ outcome' = outcome
            /\ techniques' = parse_attack_techniques(attack_data)
    /\ UNCHANGED << fetch_vars, mitigations, capec_patterns, stride_mapping,
                    consolidated, out_files >>

\* mutant: the patterns are not normalized before the correlation
parse_mitigations_then_correlate ==
    /\ pc = "parse_mitigations"
    /\ events' = Append(events, Event("parse_mitigations", 0))
    /\ IF parse_attack_mitigations_raises(attack_data)
       THEN pc' = "ended" /\ outcome' = "parse_error" /\ mitigations' = mitigations
       ELSE /\ pc' = "correlate"
            /\ outcome' = outcome
            /\ mitigations' = parse_attack_mitigations(attack_data)
    /\ UNCHANGED << fetch_vars, techniques, capec_patterns, stride_mapping,
                    consolidated, out_files >>

\* line 420
parse_mitigations ==
    /\ pc = "parse_mitigations"
    /\ events' = Append(events, Event("parse_mitigations", 0))
    /\ IF parse_attack_mitigations_raises(attack_data)
       THEN pc' = "ended" /\ outcome' = "parse_error" /\ mitigations' = mitigations
       ELSE /\ pc' = "parse_patterns"
            /\ outcome' = outcome
            /\ mitigations' = parse_attack_mitigations(attack_data)
    /\ UNCHANGED << fetch_vars, techniques, capec_patterns, stride_mapping,
                    consolidated, out_files >>

\* line 421
parse_patterns ==
    /\ pc = "parse_patterns"
    /\ events' = Append(events, Event("parse_patterns", 0))
    /\ capec_patterns' = parse_capec_patterns(capec_data)
    /\ pc' = "correlate"
    /\ UNCHANGED << fetch_vars, techniques, mitigations, stride_mapping, consolidated,
                    out_files, outcome >>

\* line 424
correlate ==
    /\ pc = "correlate"
    /\ events' = Append(events, Event("correlate", 0))
    /\ stride_mapping' = create_stride_mapping_with_real_data(techniques, capec_patterns)
    /\ pc' = "consolidate"
    /\ UNCHANGED << fetch_vars, techniques, mitigations, capec_patterns, consolidated,
                    out_files, outcome >>

\* lines 427-464: build the document and write consolidated_mapping.json; an
\* error of the write is not caught here
consolidate ==
    /\ pc = "consolidate"
    /\ consolidated' = consolidated_mapping(techniques, mitigations, capec_patterns,
                                            d3fend_data, stride_mapping)
    /\ \E written \in BOOLEAN :
        IF written
        THEN /\ out_files' = out_files \cup { "consolidated_mapping.json" }
             /\ pc' = "report"
             /\ outcome' = outcome
             /\ events' = events \o << Event("consolidate", 0), Event("write", 0) >>
        ELSE /\ out_files' = out_files
             /\ pc' = "ended"
             /\ outcome' = "consolidated_write_error"
             /\ events' = Append(events, Event("consolidate", 0))
    /\ UNCHANGED << fetch_vars, techniques, mitigations, capec_patterns, stride_mapping >>

\* line 830 (generate_html_report, lines 466-815): render and write the report
report ==
    /\ pc = "report"
    /\ events' = Append(events, Event("report", 0))
    /\ pc' = "ended"
    /\ \E written \in BOOLEAN :
        IF written
        THEN /\ out_files' = out_files \cup { "cybersec_report.html" }
             /\ outcome' = "completed"
        ELSE /\ out_files' = out_files
             /\ outcome' = "report_write_error"
    /\ UNCHANGED << fetch_vars, techniques, mitigations, capec_patterns, stride_mapping,
                    consolidated >>

(***************************************************************************)
(* Specifications.                                                         *)
(***************************************************************************)
Idle ==
    /\ attempt = 0
    /\ responses = << >>
    /\ sleeps = << >>
    /\ ret = << >>
    /\ downloaded = [ u \in DOMAIN sources |-> << >> ]
    /\ exhausted = {}
    /\ raw_files = {}
    /\ attack_data = << >>
    /\ capec_data = EmptyDict
    /\ d3fend_data = EmptyDict
    /\ mitigations = << >>
    /\ stride_mapping = EmptyDict
    /\ consolidated = EmptyDict
    /\ out_files = {}
    /\ outcome = "running"
    /\ attempted = {}
    /\ events = << >>

\* a run of main(): every download uses the default max_retries
Init ==
    /\ pc = "download"
    /\ url = 1
    /\ max_retries = DefaultMaxRetries
    /\ techniques = << >>
    /\ capec_patterns = << >>
    /\ Idle

Next ==
    \/ download_attempt
    \/ download_sleep
    \/ fetch_attack_data_returned
    \/ fetch_attack_data_raised
    \/ fetch_capec_data_returned
    \/ fetch_capec_data_raised
    \/ fetch_d3fend_data_returned
    \/ fetch_d3fend_data_raised
    \/ parse_techniques
    \/ parse_mitigations
    \/ parse_patterns
    \/ correlate
    \/ consolidate
    \/ report

Spec == Init /\ [][Next]_vars

\* a run in which no request, wait or local step hangs: whatever step is
\* possible is eventually taken
FairSpec == Spec /\ WF_vars(Next)

\* one call of download_with_retry, for any url and any max_retries
RetryInit ==
    /\ pc = "download"
    /\ url \in DOMAIN sources
    /\ max_retries \in 0 .. MaxRetriesArg
    /\ techniques = << >>
    /\ capec_patterns = << >>
    /\ Idle

RetryNext ==
    \/ download_attempt
    \/ download_sleep
    \/ download_falls_through

RetrySpec == RetryInit /\ [][RetryNext]_vars

\* one call of create_stride_mapping_with_real_data, for any normalized lists
CorrInit ==
    /\ pc = "correlate"
    /\ url = 1
    /\ max_retries = DefaultMaxRetries
    /\ techniques \in SeqsUpTo(TechPool, MaxTechs)
    /\ capec_patterns \in SeqsUpTo(PatternPool, MaxPatterns)
    /\ Idle

CorrNext == correlate

CorrSpec == CorrInit /\ [][CorrNext]_vars

(***************************************************************************)
(* Properties.                                                             *)
(***************************************************************************)
CategorySet == DOMAIN stride_capec_mappings

FetchPcs == { "download", "sleep", "returned", "raised", "returned_none" }

Correlated == DOMAIN stride_mapping # {}

PatternIds(c) ==
    { stride_mapping[c].capec_patterns[i].id : i \in DOMAIN stride_mapping[c].capec_patterns }

CuratedIds(c) ==
    { stride_capec_mappings[c].capec_ids[i] : i \in DOMAIN stride_capec_mappings[c].capec_ids }

SuppliedIds == { capec_patterns[i].id : i \in DOMAIN capec_patterns } \ { "" }

\* C1: once the correlation has run, no category's capec_patterns list holds
\* the same identifier at two positions.
C1_NoDuplicatePatternIds ==
    Correlated =>
        \A c \in CategorySet :
            \A i, j \in DOMAIN stride_mapping[c].capec_patterns :
                i # j => stride_mapping[c].capec_patterns[i].id
                         # stride_mapping[c].capec_patterns[j].id

\* C2: once the correlation has run, the identifiers in a category's
\* capec_patterns list are exactly those that are both curated for the category
\* and the non-empty identifier of a supplied pattern.
C2_PatternIdsAreTheIntersection ==
    Correlated => \A c \in CategorySet : PatternIds(c) = CuratedIds(c) \cap SuppliedIds

\* a curated identifier is matched while the patterns also hold an identifier
\* no category curates and an empty identifier
C2_Witness ==
    /\ Correlated
    /\ PatternIds("Repudiation") = { "CAPEC-93" }
    /\ \E i \in DOMAIN capec_patterns : capec_patterns[i].id \in { "", "CAPEC-999" }

InList(tech, c) ==
    \E j \in DOMAIN stride_mapping[c].attack_techniques :
        stride_mapping[c].attack_techniques[j] = technique_summary(tech)

\* name and description joined, name first, nothing in between
JoinedHasKeyword(tech, c) ==
    \E k \in DOMAIN stride_keywords[c] :
        Contains(lower(tech.name \o tech.description), stride_keywords[c][k])

\* a keyword lies within the name, or within the description
PartHasKeyword(tech, c) ==
    \E k \in DOMAIN stride_keywords[c] :
        \/ Contains(lower(tech.name), stride_keywords[c][k])
        \/ Contains(lower(tech.description), stride_keywords[c][k])

\* C3 as stated: a technique is in a category's attack_techniques list iff the
\* lowercased concatenation of its name and description contains a keyword of
\* the category.
C3_MatchesJoinedText ==
    Correlated =>
        \A c \in CategorySet : \A i \in DOMAIN techniques :
            InList(techniques[i], c) <=> JoinedHasKeyword(techniques[i], c)

\* C3 amended: a technique is in a category's attack_techniques list iff its
\* lowercased name, or its lowercased description, contains a keyword of the
\* category (the code searches description + ' ' + name and no keyword holds a
\* space, so a keyword never spans the two fields).
C3_MatchesNameOrDescription ==
    Correlated =>
        \A c \in CategorySet : \A i \in DOMAIN techniques :
            InList(techniques[i], c) <=> PartHasKeyword(techniques[i], c)

\* a technique matched to several categories next to one matched only through
\* lowercasing
C3_Witness ==
    /\ Correlated
    /\ \E i, j \in DOMAIN techniques :
        /\ techniques[i] = technique(ObjMulti, sources[1])
        /\ InList(techniques[i], "Tampering") /\ InList(techniques[i], "Repudiation")
        /\ ~ InList(techniques[i], "Spoofing")
        /\ techniques[j] = technique(ObjRogueAP, sources[1])
        /\ InList(techniques[j], "Spoofing") /\ ~ InList(techniques[j], "Tampering")

RECURSIVE DownloadedItems(_)
DownloadedItems(u) ==
    IF u \notin AttackSources THEN << >>
    ELSE (IF downloaded[u] = << >> THEN << >>
          ELSE << [ domain |-> sources[u], data |-> downloaded[u][1] ] >>)
         \o DownloadedItems(u + 1)

DownloadedDoc(u) == IF downloaded[u] = << >> THEN EmptyDict ELSE downloaded[u][1]

\* C4: a run in which exactly one source exhausted its retries ends with the
\* consolidated document built and (unless that final write itself failed)
\* written, the normalized lists holding the records of every downloaded
\* document, and d3fend_available false exactly when D3FEND is the failed source.
C4_OneSourceDownStillConsolidates ==
    (pc = "ended" /\ Cardinality(exhausted) = 1) =>
        /\ consolidated # EmptyDict
        /\ outcome # "consolidated_write_error"
               => "consolidated_mapping.json" \in out_files
        /\ techniques = parse_attack_techniques(DownloadedItems(1))
        /\ mitigations = parse_attack_mitigations(DownloadedItems(1))
        /\ capec_patterns = parse_capec_patterns(DownloadedDoc(4))
        /\ consolidated.metadata.data_sources.d3fend_available = (5 \notin exhausted)

\* C5: in a call of download_with_retry a successful attempt is the last one,
\* its document is what the call returns, and the waits before it are 2^0,
\* 2^1, ... one after each failed attempt and before the next attempt.
C5_SuccessAfterFailures ==
    /\ \A i \in DOMAIN responses :
        responses[i].ok =>
            /\ i = Len(responses)
            /\ i <= max_retries
            /\ pc = "returned"
            /\ ret = << responses[i].doc >>
            /\ sleeps = [ j \in 1 .. (i - 1) |-> 2 ^ (j - 1) ]
    /\ pc = "download" => Len(sleeps) = Len(responses)
    /\ pc = "sleep" => Len(sleeps) = Len(responses) - 1

\* failures on attempts 1 and 2, success on attempt 3 of 3
C5_Witness ==
    /\ pc = "returned"
    /\ max_retries = 3
    /\ Len(responses) = 3
    /\ sleeps = << 1, 2 >>

AllFailed == \A i \in DOMAIN responses : ~ responses[i].ok

\* C6: with max_retries = n >= 1 and every attempt failing, the call makes n
\* attempts, waits 2^i after failed attempt i (0-based) for i < n-1, does not
\* wait after the last one and ends by raising, never by returning.
C6_ExhaustionRaises ==
    (max_retries >= 1 /\ AllFailed) =>
        /\ Len(responses) <= max_retries
        /\ pc # "returned" /\ pc # "returned_none"
        /\ Len(responses) = max_retries
               => pc = "raised" /\ sleeps = [ j \in 1 .. (max_retries - 1) |-> 2 ^ (j - 1) ]
        /\ pc = "raised" => Len(responses) = max_retries

\* four failed attempts of four
C6_Witness ==
    /\ pc = "raised"
    /\ max_retries = 4
    /\ AllFailed
    /\ sleeps = << 1, 2, 4 >>

\* what the fetch wrapper of source u handed to generate_consolidated_mapping
FetchResult(u) ==
    CASE u \in AttackSources ->
             LET at == { i \in DOMAIN attack_data : attack_data[i].domain = sources[u] }
             IN  IF at = {} THEN EmptyDict ELSE attack_data[CHOOSE i \in at : TRUE].data
      [] u = 4 -> capec_data
      [] OTHER -> d3fend_data

\* C7: for every source whose download returned a document, the fetch result
\* is that document whether or not the raw snapshot was written (so D3FEND
\* counts as available).
C7_SnapshotFailureKeepsDocument ==
    \A u \in DOMAIN sources :
        downloaded[u] # << >> =>
            /\ FetchResult(u) = downloaded[u][1]
            /\ u = 5 => Truthy(d3fend_data)

\* C8: a run that has ended either completed, or failed in writing
\* consolidated_mapping.json.
C8_OnlyTheFinalWriteIsFatal ==
    pc = "ended" => outcome \in { "completed", "consolidated_write_error" }

WellFormed(type, obj) ==
    IF type = "attack-pattern" THEN ~ technique_raises(obj) ELSE ~ mitigation_raises(obj)

\* the items of attack_data with the malformed records of the given type removed
WellFormedItems(items, type) ==
    [ d \in DOMAIN items |->
        [ domain |-> items[d].domain,
          data |-> IF "objects" \in DOMAIN items[d].data
                   THEN [ items[d].data EXCEPT
                            !.objects = SelectSeq(@, LAMBDA obj :
                                Get(obj, "type", "None") = type => WellFormed(type, obj)) ]
                   ELSE items[d].data ] ]

\* C9: normalization never aborts on a malformed record; after it, the
\* technique and mitigation lists hold every well-formed record of every
\* fetched document.
C9_MalformedRecordIsSkipped ==
    /\ outcome # "parse_error"
    /\ pc \notin FetchPcs \cup { "parse_techniques" }
           => techniques
              = parse_attack_techniques(WellFormedItems(attack_data, "attack-pattern"))
    /\ pc \notin FetchPcs \cup { "parse_techniques", "parse_mitigations" }
           => mitigations
              = parse_attack_mitigations(WellFormedItems(attack_data, "course-of-action"))

\* the identifier C10 requires for a record
ClaimedId(obj) ==
    IF "external_references" \notin DOMAIN obj THEN ""
    ELSE IF obj.external_references = << >> THEN ""
    ELSE Get(obj.external_references[1], "external_id", "")

RECURSIVE ClaimedIds(_, _)
ClaimedIds(items, type) ==
    IF items = << >> THEN << >>
    ELSE LET objs == objects_of_type(Head(items).data, type)
         IN  [ i \in DOMAIN objs |-> ClaimedId(objs[i]) ] \o ClaimedIds(Tail(items), type)

Ids(list) == [ i \in DOMAIN list |-> list[i].id ]

\* no technique record of the fetched documents has a malformed kill-chain phase
PhasesWellFormed ==
    \A d \in DOMAIN attack_data :
        LET objs == objects_of_type(attack_data[d].data, "attack-pattern")
        IN  \A i \in DOMAIN objs : ~ tactics_raises(objs[i])

\* C10: once the technique (mitigation) records have been normalized, the
\* identifiers are, record by record, the external_id of the first external
\* reference whatever its source tag, and '' where the list is empty or absent
\* or the first entry has no external_id.  Stated for documents whose only
\* irregularity is in external_references.
C10_IdIsFirstReferenceOrEmpty ==
    /\ (pc \notin FetchPcs \cup { "parse_techniques" } /\ PhasesWellFormed)
           => Ids(techniques) = ClaimedIds(attack_data, "attack-pattern")
    /\ (pc \notin FetchPcs \cup { "parse_techniques", "parse_mitigations" }
        /\ ~ parse_attack_techniques_raises(attack_data))
           => Ids(mitigations) = ClaimedIds(attack_data, "course-of-action")

\* the document has been built by generate_consolidated_mapping
Consolidated == DOMAIN consolidated # {}

\* the sum, written out, of the lengths of one list over the six categories
SixLengths(mapping, field) ==
    Len(mapping["Spoofing"][field]) + Len(mapping["Tampering"][field])
    + Len(mapping["Repudiation"][field]) + Len(mapping["Information Disclosure"][field])
    + Len(mapping["Denial of Service"][field])
    + Len(mapping["Elevation of Privilege"][field])

\* C12: in the consolidated document every category's capec_count is the
\* length of its pattern-match list, total_capec_mapped is the sum of those
\* lengths over the six categories and total_attack_mapped is the sum of the
\* lengths of the technique-match lists (a technique matched by k categories
\* counts k times).
C12_CountsAreListLengths ==
    Consolidated =>
        LET mapping == consolidated.stride_mapping
            stats == consolidated.framework_stats
        IN  /\ \A c \in DOMAIN mapping :
                  /\ mapping[c].capec_count = Len(mapping[c].capec_patterns)
                  /\ stats.coverage_by_category[c].capec_count
                       = Len(mapping[c].capec_patterns)
            /\ stats.total_capec_mapped = SixLengths(mapping, "capec_patterns")
            /\ stats.total_attack_mapped = SixLengths(mapping, "attack_techniques")

\* a document in which a pattern is listed twice in one category and a
\* technique is counted under several categories
C12_Witness ==
    /\ Consolidated
    /\ consolidated.framework_stats.total_attack_mapped > Len(techniques)
    /\ \E c \in DOMAIN consolidated.stride_mapping :
          LET matched == consolidated.stride_mapping[c].capec_patterns
          IN  \E i, j \in DOMAIN matched : i < j /\ matched[i].id = matched[j].id

\* C13: for every pair of normalized lists, the empty ones included, the
\* keys of the correlation output are exactly the six STRIDE categories and
\* each entry carries the category's static description.
C13_SixCategoriesAlways ==
    Correlated =>
        /\ DOMAIN stride_mapping
             = { "Spoofing", "Tampering", "Repudiation", "Information Disclosure",
                 "Denial of Service", "Elevation of Privilege" }
        /\ stride_mapping["Spoofing"].description = "Identity falsification attacks"
        /\ stride_mapping["Tampering"].description = "Data or system integrity violations"
        /\ stride_mapping["Repudiation"].description
             = "Denial of actions or hiding evidence"
        /\ stride_mapping["Information Disclosure"].description
             = "Unauthorized information access or leakage"
        /\ stride_mapping["Denial of Service"].description = "Service availability attacks"
        /\ stride_mapping["Elevation of Privilege"].description
             = "Unauthorized access escalation"

\* the correlation of two empty lists, as after a run in which every source failed
C13_Witness ==
    /\ Correlated
    /\ techniques = << >>
    /\ capec_patterns = << >>
    /\ \A c \in DOMAIN stride_mapping :
          stride_mapping[c].capec_patterns = << >> /\ stride_mapping[c].attack_techniques = << >>

\* C14: every source before the one being fetched, and every source once the
\* fetch step is over, has been requested at least once, whatever happened to
\* the others; a source gives up only after its own max_retries attempts; and
\* a source whose download failed hands over nothing: no document, no
\* technique or mitigation of its domain, no pattern.
C14_EverySourceIsAttempted ==
    /\ \A u \in DOMAIN sources :
          (pc \notin FetchPcs \/ u < url) => u \in attempted
    /\ pc = "raised" => Len(responses) = max_retries
    /\ \A u \in exhausted :
          /\ FetchResult(u) = EmptyDict
          /\ \A i \in DOMAIN techniques : techniques[i].domain # sources[u]
          /\ \A i \in DOMAIN mitigations : mitigations[i].domain # sources[u]
          /\ u = 4 => capec_patterns = << >>

\* a completed run in which the first source exhausted its retries, the
\* snapshot of another could not be written, and the later sources were
\* fetched and gave records
C14_Witness ==
    /\ pc = "ended"
    /\ outcome = "completed"
    /\ 1 \in exhausted
    /\ \E u \in DOMAIN sources : downloaded[u] # << >> /\ u \notin raw_files
    /\ attempted = DOMAIN sources
    /\ techniques # << >>
    /\ capec_patterns # << >>

\* the identifier C15 requires for a list of external references: a scan from
\* the front that stops at the first entry tagged 'capec'
RECURSIVE ClaimedCapecId(_)
ClaimedCapecId(refs) ==
    IF refs = << >> THEN ""
    ELSE IF "source_name" \in DOMAIN Head(refs) /\ Head(refs).source_name = "capec"
         THEN (IF "external_id" \in DOMAIN Head(refs) THEN Head(refs).external_id ELSE "")
         ELSE ClaimedCapecId(Tail(refs))

ClaimedCapecIds(data) ==
    LET objs == objects_of_type(data, "attack-pattern")
    IN  [ i \in DOMAIN objs |->
            ClaimedCapecId(IF "external_references" \in DOMAIN objs[i]
                           THEN objs[i].external_references ELSE << >>) ]

PatternsParsed ==
    pc \in { "correlate", "consolidate", "report" } \/ (pc = "ended" /\ Correlated)

\* C15: once the patterns are normalized, their identifiers are, record by
\* record, the external_id of the first external reference tagged 'capec'
\* (entries with other tags before it are skipped), and '' for a record with
\* no such entry.
C15_IdIsFirstCapecReference ==
    PatternsParsed => Ids(capec_patterns) = ClaimedCapecIds(capec_data)

\* a catalog with a record whose 'capec' reference comes second and a record
\* with no 'capec' reference
C15_Witness ==
    /\ PatternsParsed
    /\ \E i, j \in DOMAIN capec_patterns :
          /\ capec_patterns[i].id = "CAPEC-93"
          /\ capec_patterns[i].external_references[1].source_name = "cwe"
          /\ capec_patterns[j].id = ""
          /\ capec_patterns[j].external_references # << >>
          /\ capec_patterns[j].name = << "U" >>

\* the first position of id in a curated list that contains it
FirstIndex(list, id) ==
    CHOOSE i \in DOMAIN list : list[i] = id /\ \A j \in DOMAIN list : list[j] = id => i <= j

\* the pattern-match list of c never steps back in the curated list of c
InCuratedOrder(c) ==
    LET curated == stride_capec_mappings[c].capec_ids
        matched == stride_mapping[c].capec_patterns
    IN  \A i, j \in DOMAIN matched :
            i < j => FirstIndex(curated, matched[i].id) <= FirstIndex(curated, matched[j].id)

\* short is long with some positions left out
RECURSIVE IsSubsequence(_, _)
IsSubsequence(short, long) ==
    IF short = << >> THEN TRUE
    ELSE IF long = << >> THEN FALSE
    ELSE IF Head(short) = Head(long) THEN IsSubsequence(Tail(short), Tail(long))
    ELSE IsSubsequence(short, Tail(long))

\* the stix ids of the technique records of the fetched documents, document
\* after document
RECURSIVE RecordsInOrder(_)
RecordsInOrder(items) ==
    IF items = << >> THEN << >>
    ELSE LET objs == IF "objects" \in DOMAIN Head(items).data
                     THEN Head(items).data.objects ELSE << >>
             kept == SelectSeq(objs, LAMBDA obj :
                         "type" \in DOMAIN obj /\ obj.type = "attack-pattern")
         IN  [ i \in DOMAIN kept |-> << Head(items).domain, kept[i].id >> ]
             \o RecordsInOrder(Tail(items))

\* the technique-match list of c is a subsequence of the normalized list
TechniquesInSourceOrder(c) ==
    IsSubsequence(stride_mapping[c].attack_techniques,
                  [ i \in DOMAIN techniques |->
                      [ id |-> techniques[i].id, name |-> techniques[i].name,
                        domain |-> techniques[i].domain,
                        tactics |-> techniques[i].tactics ] ])

\* the normalized technique list follows the documents and their records
NormalizedInDocumentOrder ==
    [ i \in DOMAIN techniques |-> << techniques[i].domain, techniques[i].stix_id >> ]
        = RecordsInOrder(attack_data)

\* C16: after correlation every category's pattern-match list is ordered by
\* the first occurrence of its identifiers in the curated list, every
\* technique-match list is a subsequence of the normalized technique list, and
\* that list is the concatenation of the documents' records in document and
\* record order.
C16_ListsKeepTheirOrder ==
    Correlated =>
        /\ \A c \in DOMAIN stride_mapping : InCuratedOrder(c)
        /\ \A c \in DOMAIN stride_mapping : TechniquesInSourceOrder(c)
        /\ NormalizedInDocumentOrder

\* the technique half of C16, which the code does keep
TechniqueOrderKept ==
    Correlated =>
        /\ \A c \in DOMAIN stride_mapping : TechniquesInSourceOrder(c)
        /\ NormalizedInDocumentOrder

\* the positions of the supplied patterns that carry the identifier id
PositionsOf(id) == { i \in DOMAIN capec_patterns : capec_patterns[i].id = id }

\* summary s shows the name and the (possibly cut) description of pattern p
ShowsPattern(s, p) ==
    /\ s.name = p.name
    /\ s.description
         = IF Len(p.description) > DescriptionLimit
           THEN SubSeq(p.description, 1, DescriptionLimit) \o << ".", ".", "." >>
           ELSE p.description

\* C17: every summary emitted for any category has a non-empty identifier and
\* shows the name and description of the last supplied pattern with that
\* identifier, the same one in every category.
C17_LastPatternWins ==
    Correlated =>
        \A c \in DOMAIN stride_mapping :
            \A k \in DOMAIN stride_mapping[c].capec_patterns :
                LET s == stride_mapping[c].capec_patterns[k]
                IN  /\ s.id # ""
                    /\ PositionsOf(s.id) # {}
                    /\ \A i \in PositionsOf(s.id) :
                          (\A j \in PositionsOf(s.id) : j <= i)
                              => ShowsPattern(s, capec_patterns[i])

\* two supplied patterns share an identifier and differ in name, a third has
\* no identifier, and the shared identifier is emitted for two categories
C17_Witness ==
    /\ Correlated
    /\ \E i, j \in DOMAIN capec_patterns :
          /\ i < j
          /\ capec_patterns[i].id = capec_patterns[j].id
          /\ capec_patterns[i].name # capec_patterns[j].name
          /\ \E c, d \in DOMAIN stride_mapping :
                /\ c # d
                /\ capec_patterns[j].id \in PatternIds(c) \cap PatternIds(d)
    /\ \E i \in DOMAIN capec_patterns : capec_patterns[i].id = ""

\* the place of a step in the order fetch, normalize, correlate, write
StepRank(step) ==
    CASE step \in { "downloaded", "snapshot", "failed" } -> 1
      [] step = "parse_techniques" -> 2
      [] step = "parse_mitigations" -> 3
      [] step = "parse_patterns" -> 4
      [] step = "correlate" -> 5
      [] step = "consolidate" -> 6
      [] step = "write" -> 7
      [] OTHER -> 8

\* the positions of the history at which the given step was taken
StepsAt(step) == { k \in DOMAIN events : events[k].step = step }

\* source u was downloaded, or gave up, before position k of the history
ResolvedBefore(u, k) ==
    \E i \in 1 .. (k - 1) :
        events[i].source = u /\ events[i].step \in { "downloaded", "failed" }

\* C18: the steps of a run are taken in the order fetch, normalize, correlate,
\* write: the history never steps back, no step after the fetch is taken
\* twice, the first normalization comes after every source was downloaded or
\* gave up, correlation after the three normalizations, the write after the
\* correlation; a snapshot is written directly after its source's download
\* and never for a source that gave up; and the state agrees with the history.
C18_StepsInOrder ==
    /\ \A i, j \in DOMAIN events :
          i < j => /\ StepRank(events[i].step) <= StepRank(events[j].step)
                   /\ StepRank(events[i].step) > 1
                         => StepRank(events[i].step) < StepRank(events[j].step)
    /\ \A k \in DOMAIN events :
          StepRank(events[k].step) > 1 => \A u \in DOMAIN sources : ResolvedBefore(u, k)
    /\ StepsAt("correlate") # {}
          => /\ StepsAt("parse_techniques") # {}
             /\ StepsAt("parse_mitigations") # {}
             /\ StepsAt("parse_patterns") # {}
    /\ StepsAt("write") # {} => StepsAt("correlate") # {}
    /\ \A k \in StepsAt("snapshot") :
          /\ k > 1
          /\ events[k - 1] = Event("downloaded", events[k].source)
          /\ events[k].source \notin exhausted
    /\ raw_files = { events[k].source : k \in StepsAt("snapshot") }
    /\ exhausted = { events[k].source : k \in StepsAt("failed") }
    /\ pc \in FetchPcs => \A k \in DOMAIN events : StepRank(events[k].step) = 1
    /\ (techniques # << >> \/ mitigations # << >>) => StepsAt("parse_techniques") # {}
    /\ capec_patterns # << >> => StepsAt("parse_patterns") # {}
    /\ Correlated <=> StepsAt("correlate") # {}
    /\ Consolidated <=> StepsAt("consolidate") # {}
    /\ "consolidated_mapping.json" \in out_files <=> StepsAt("write") # {}

\* a completed run with all the steps, in which one source gave up, one
\* snapshot was written and another was not
C18_Witness ==
    /\ outcome = "completed"
    /\ StepsAt("write") # {}
    /\ StepsAt("failed") # {}
    /\ StepsAt("snapshot") # {}
    /\ \E u \in DOMAIN sources : downloaded[u] # << >> /\ u \notin raw_files
    /\ capec_patterns # << >>

\* the positions of the history at which a source's fetch was over
Resolved == StepsAt("downloaded") \cup StepsAt("failed")

\* the calls of download_with_retry that are over, and the one under way
CallsOver == Cardinality(Resolved)

CallUnderWay == IF pc \in FetchPcs THEN 1 ELSE 0

\* each call makes at most max_retries (3) attempts and max_retries - 1 (2)
\* waits, no source is fetched twice, and so the attempts and waits of the
\* run stay within 15 and 10
WithinRetryBudget ==
    /\ max_retries = 3
    /\ Len(responses) <= max_retries
    /\ Len(sleeps) <= max_retries - 1
    /\ Len(sleeps) <= Len(responses)
    /\ \A i, j \in Resolved : events[i].source = events[j].source => i = j
    /\ \A i \in Resolved : events[i].source \in attempted
    /\ CallsOver + CallUnderWay <= Len(sources)
    /\ (CallsOver + CallUnderWay) * max_retries <= 15
    /\ (CallsOver + CallUnderWay) * (max_retries - 1) <= 10

\* C19: when no attempt and no wait hangs, every run reaches its end, completed
\* or failed, whatever the outcomes of the attempts; no source gets more than
\* 3 attempts and 2 waits, and with five sources fetched once each the run
\* makes at most 15 attempts and 10 waits.
C19_RunTerminatesWithinBudget ==
    /\ [] WithinRetryBudget
    /\ <> (pc = "ended" /\ outcome # "running")

\* the end of the run in which every attempt of every source failed: five
\* calls are over and the last one made 3 attempts and 2 waits
C19_Witness ==
    /\ pc = "ended"
    /\ outcome # "running"
    /\ exhausted = DOMAIN sources
    /\ CallsOver = 5
    /\ Len(responses) = 3
    /\ Len(sleeps) = 2

\* C20: an identifier that is supplied and curated under two categories is
\* in the pattern-match lists of both, whichever of the two is processed
\* first.
C20_CategoriesAreIndependent ==
    Correlated =>
        \A c, d \in DOMAIN stride_mapping :
            \A id \in (CuratedIds(c) \cap CuratedIds(d)) \cap SuppliedIds :
                id \in PatternIds(c) \cap PatternIds(d)

\* CAPEC-21 is supplied and is in the lists of Denial of Service and of
\* Elevation of Privilege
C20_Witness ==
    /\ Correlated
    /\ "CAPEC-21" \in SuppliedIds
    /\ "CAPEC-21" \in PatternIds("Denial of Service")
    /\ "CAPEC-21" \in PatternIds("Elevation of Privilege")

\* the call of download_with_retry is over
CallOver == pc \in { "returned", "raised", "returned_none" }

\* what C21 requires of a call: a return hands over the document of the
\* attempt that succeeded, and a call without a successful attempt raises
ReturnContract ==
    /\ pc = "returned"
          => /\ responses # << >>
             /\ responses[Len(responses)].ok
             /\ ret = << responses[Len(responses)].doc >>
    /\ pc # "returned_none"
    /\ (CallOver /\ AllFailed) => pc = "raised"

\* C21: for every max_retries >= 0, download_with_retry returns only when an
\* attempt succeeded, and then that attempt's document; when no attempt
\* succeeds, max_retries = 0 included, the call raises and never returns
\* without a document.
C21_ReturnsOnlyADocument == ReturnContract

\* the contract for the calls that make at least one attempt, which the code keeps
ReturnContractFromOneAttempt == max_retries >= 1 => ReturnContract

====
